---- MODULE Spec2Model ----
(***************************************************************************)
(* A model of timm/models/vgg.py: the variant table (cfgs), the stage      *)
(* builder and the rest of VGG.__init__, the head adapter ConvMlp, the     *)
(* model's reconfiguration methods, and the checkpoint remapper            *)
(* _filter_fn.  Tensors are modelled by their shapes, modules by their     *)
(* kind and channel widths.                                                *)
(***************************************************************************)
EXTENDS Integers, Sequences, FiniteSets, TLC

VARIABLES
    phase,              \* "new" | "built" | "failed": where the VGG object is
    cfg_name,           \* the key of cfgs the model was built from ("" before)
    use_norm,           \* self.use_norm
    features,           \* self.features: the sequence of layers
    feature_info,       \* self.feature_info: the sequence of StageInfo dicts
    num_features,       \* self.num_features
    num_classes,        \* self.num_classes
    grad_checkpointing, \* self.grad_checkpointing
    pre_logits,         \* self.pre_logits: the ConvMlp
    head,               \* self.head: the ClassifierHead
    kwargs,             \* the arguments VGG was constructed with
    call,               \* the last call made and its arguments
    raised,             \* whether the last call raised
    last_out,           \* what the last call on the model returned
    mlp,                \* a stand-alone ConvMlp
    mlp_out,            \* the result of its last forward pass
    state_dict,         \* the checkpoint handed to _filter_fn
    remapped,           \* _filter_fn(state_dict)
    remapped2           \* _filter_fn(_filter_fn(state_dict))

vars == <<phase, cfg_name, use_norm, features, feature_info, num_features,
          num_classes, grad_checkpointing, pre_logits, head, kwargs, call,
          raised, last_out, mlp, mlp_out, state_dict, remapped, remapped2>>

vggVars == <<phase, cfg_name, use_norm, features, feature_info, num_features,
             num_classes, grad_checkpointing, pre_logits, head, kwargs, raised,
             last_out>>
mlpVars == <<mlp, mlp_out>>
remapVars == <<state_dict, remapped, remapped2>>

\* What a field holds before it is assigned, and what a call that raised returns.
None == [kind |-> "None"]
Error == [kind |-> "Error"]
NoCall == [op |-> "none"]

Max(a, b) == IF a >= b THEN a ELSE b

---------------------------------------------------------------------------
(* The variant table.  The pooling marker 'M' is written M; every other    *)
(* element is a channel width.                                             *)
M == 0

cfgs ==
    [vgg11 |-> <<64, M, 128, M, 256, 256, M, 512, 512, M, 512, 512, M>>,
     vgg13 |-> <<64, 64, M, 128, 128, M, 256, 256, M, 512, 512, M, 512, 512, M>>,
     vgg16 |-> <<64, 64, M, 128, 128, M, 256, 256, 256, M, 512, 512, 512, M,
                 512, 512, 512, M>>,
     vgg19 |-> <<64, 64, M, 128, 128, M, 256, 256, 256, 256, M, 512, 512, 512, 512, M,
                 512, 512, 512, 512, M>>]

CfgNames == DOMAIN cfgs

---------------------------------------------------------------------------
(* Layers of the feature stack.                                            *)
Conv(cin, cout, k, pad) == [kind |-> "conv", cin |-> cin, cout |-> cout, k |-> k, pad |-> pad]
Norm(v) == [kind |-> "norm", cin |-> v, cout |-> v, k |-> 0, pad |-> 0]
Act == [kind |-> "act", cin |-> 0, cout |-> 0, k |-> 0, pad |-> 0]
Pool == [kind |-> "pool", cin |-> 0, cout |-> 0, k |-> 2, pad |-> 0]

StageInfo(chs, red, idx) == [num_chs |-> chs, reduction |-> red, module |-> idx]

\* ConvBlock with the activation put before the normalization.
ConvBlock_ActFirst(prev_chs, v, norm) ==
    IF norm THEN <<Conv(prev_chs, v, 3, 1), Act, Norm(v)>>
    ELSE <<Conv(prev_chs, v, 3, 1), Act>>

\* The layers one channel-width value v adds (lines 142-147).
ConvBlock(prev_chs, v, norm) ==
    IF norm THEN <<Conv(prev_chs, v, 3, 1), Norm(v), Act>>
    ELSE <<Conv(prev_chs, v, 3, 1), Act>>

\* BuildStep with the stride update (line 140) forgotten.
BuildStep_NoStride(st, v, norm) ==
    IF v = M
    THEN [prev_chs |-> st.prev_chs,
          net_stride |-> st.net_stride,
          layers |-> Append(st.layers, Pool),
          info |-> Append(st.info,
                          StageInfo(st.prev_chs, st.net_stride, Len(st.layers) - 1))]
    ELSE [prev_chs |-> v,
          net_stride |-> st.net_stride,
          layers |-> st.layers \o ConvBlock(st.prev_chs, v, norm),
          info |-> st.info]

\* One iteration of the loop of VGG.__init__ over the loop's locals
\* st = [prev_chs, net_stride, layers, info].
BuildStep(st, v, norm) ==
    LET last_idx == Len(st.layers) - 1
    IN IF v = M
       THEN [prev_chs |-> st.prev_chs,
             net_stride |-> st.net_stride * 2,
             layers |-> Append(st.layers, Pool),
             info |-> Append(st.info, StageInfo(st.prev_chs, st.net_stride, last_idx))]
       ELSE [prev_chs |-> v,
             net_stride |-> st.net_stride,
             layers |-> st.layers \o ConvBlock(st.prev_chs, v, norm),
             info |-> st.info]

\* The loop over the first n elements of cfg.
RECURSIVE BuildLoop(_, _, _, _)
BuildLoop(cfg, n, in_chans, norm) ==
    IF n = 0
    THEN [prev_chs |-> in_chans, net_stride |-> 1, layers |-> <<>>, info |-> <<>>]
    ELSE BuildStep(BuildLoop(cfg, n - 1, in_chans, norm), cfg[n], norm)

\* BuildStages with the final StageInfo naming features.{len(layers)}.
BuildStages_LenIndex(cfg, in_chans, norm) ==
    LET st == BuildLoop(cfg, Len(cfg), in_chans, norm)
    IN [prev_chs |-> st.prev_chs,
        net_stride |-> st.net_stride,
        layers |-> st.layers,
        info |-> Append(st.info,
                        StageInfo(st.prev_chs, st.net_stride, Len(st.layers)))]

\* The stage builder: the loop, then the final StageInfo (line 150).
BuildStages(cfg, in_chans, norm) ==
    LET st == BuildLoop(cfg, Len(cfg), in_chans, norm)
    IN [prev_chs |-> st.prev_chs,
        net_stride |-> st.net_stride,
        layers |-> st.layers,
        info |-> Append(st.info,
                        StageInfo(st.prev_chs, st.net_stride, Len(st.layers) - 1))]

---------------------------------------------------------------------------
(* ConvMlp.  mlp_ratio is the float ratio8 / 8, a binary fraction, so the  *)
(* float product out_features * mlp_ratio is exact.                        *)

\* MidFeatures with round() in place of int(): to nearest, halves to even.
MidFeatures_Round(out_features, ratio8) ==
    LET p == out_features * ratio8
        q == p \div 8
    IN IF 2 * (p % 8) > 8 THEN q + 1
       ELSE IF 2 * (p % 8) < 8 THEN q
       ELSE IF q % 2 = 0 THEN q ELSE q + 1

\* int(out_features * mlp_ratio): truncation (of a non-negative product).
MidFeatures(out_features, ratio8) == (out_features * ratio8) \div 8

ConvMlpInit(in_features, out_features, kernel_size, ratio8) ==
    [kind |-> "ConvMlp",
     input_kernel_size |-> kernel_size,
     fc1 |-> Conv(in_features, MidFeatures(out_features, ratio8), kernel_size, 0),
     fc2 |-> Conv(MidFeatures(out_features, ratio8), out_features, 1, 0)]

\* The spatial size a stride-1 convolution yields.
ConvOut(c, size) == size + 2 * c.pad - c.k + 1

\* NeedsResize with "and" in place of "or".
NeedsResize_Both(m, h, w) == h < m.input_kernel_size /\ w < m.input_kernel_size

\* Whether forward takes the adaptive_avg_pool2d branch.
NeedsResize(m, h, w) == h < m.input_kernel_size \/ w < m.input_kernel_size

\* The size the branch resizes to.
ResizeTo(m, h, w) == <<Max(m.input_kernel_size, h), Max(m.input_kernel_size, w)>>

\* ConvMlp.forward on a map of spatial size h x w: the output's [chs, h, w].
ConvMlpForward(m, h, w) ==
    LET hw == IF NeedsResize(m, h, w) THEN ResizeTo(m, h, w) ELSE <<h, w>>
        h1 == ConvOut(m.fc1, hw[1])
        w1 == ConvOut(m.fc1, hw[2])
        h2 == ConvOut(m.fc2, h1)
        w2 == ConvOut(m.fc2, w1)
    IN IF h1 < 1 \/ w1 < 1 THEN Error
       ELSE [kind |-> "map", chs |-> m.fc2.cout, h |-> h2, w |-> w2,
             resized |-> NeedsResize(m, h, w)]

---------------------------------------------------------------------------
(* ClassifierHead (timm.layers): pooling, then a linear layer to           *)
(* num_classes, or the identity when num_classes <= 0.                     *)
HeadFc(in_features, n) ==
    IF n > 0 THEN [kind |-> "linear", cin |-> in_features, cout |-> n]
    ELSE [kind |-> "identity", cin |-> in_features, cout |-> in_features]

ClassifierHeadInit(in_features, n, pool_type) ==
    [kind |-> "ClassifierHead", in_features |-> in_features,
     pool_type |-> pool_type, fc |-> HeadFc(in_features, n)]

\* reset(num_classes, pool_type): pool_type "None" keeps the pooling.
ClassifierHeadReset(h, n, pool_type) ==
    [h EXCEPT !.pool_type = IF pool_type = "None" THEN @ ELSE pool_type,
              !.fc = HeadFc(h.in_features, n)]

\* forward(x, pre_logits) on a map x = [chs, h, w].
ClassifierHeadForward(hd, x, pre) ==
    LET pooled == hd.pool_type \in {"avg", "max"}
    IN [kind |-> IF pre \/ hd.fc.kind = "identity" THEN "features" ELSE "logits",
        width |-> IF pre THEN x.chs ELSE hd.fc.cout,
        h |-> IF pooled THEN 1 ELSE x.h,
        w |-> IF pooled THEN 1 ELSE x.w]

---------------------------------------------------------------------------
(* VGG.                                                                    *)
head_hidden_size == 4096

\* A VGG object none of whose attributes is set yet.
NewVGG ==
    [phase |-> "new", cfg_name |-> "", use_norm |-> FALSE, features |-> <<>>,
     feature_info |-> <<>>, num_features |-> 0, num_classes |-> 0,
     grad_checkpointing |-> FALSE, pre_logits |-> None, head |-> None]

\* VGG.__init__ past the assertion (lines 125-168).
VGGBuild(name, norm, n, in_chans, ratio8, pool_type) ==
    LET st == BuildStages(cfgs[name], in_chans, norm)
    IN [phase |-> "built", cfg_name |-> name, use_norm |-> norm,
        features |-> st.layers,
        feature_info |-> st.info,
        num_features |-> st.prev_chs,
        num_classes |-> n,
        grad_checkpointing |-> FALSE,
        pre_logits |-> ConvMlpInit(st.prev_chs, head_hidden_size, 7, ratio8),
        head |-> ClassifierHeadInit(head_hidden_size, n, pool_type)]

\* VGGInit with the assertion put after the modules are built.
VGGInit_AssertLast(name, norm, output_stride, n, in_chans, ratio8, pool_type) ==
    [VGGBuild(name, norm, n, in_chans, ratio8, pool_type)
        EXCEPT !.phase = IF output_stride # 32 THEN "failed" ELSE "built"]

\* VGG.__init__: the assertion on output_stride comes first (line 124).
VGGInit(name, norm, output_stride, n, in_chans, ratio8, pool_type) ==
    IF output_stride # 32
    THEN [NewVGG EXCEPT !.phase = "failed"]
    ELSE VGGBuild(name, norm, n, in_chans, ratio8, pool_type)

\* The spatial size after the feature stack, 0 when a pooling has nothing left.
RECURSIVE FeaturesForward(_, _, _)
FeaturesForward(layers, n, size) ==
    IF n = 0 THEN size
    ELSE LET s == FeaturesForward(layers, n - 1, size)
             l == layers[n]
         IN IF s < 1 THEN 0
            ELSE IF l.kind = "conv" THEN ConvOut(l, s)
            ELSE IF l.kind = "pool" THEN s \div 2
            ELSE s

\* forward_head(forward_features(x), pre_logits) for an image of size h x w;
\* forward(x) is the case pre_logits = FALSE.
VGGForward(fs, pl, hd, h, w, pre) ==
    LET fh == FeaturesForward(fs, Len(fs), h)
        fw == FeaturesForward(fs, Len(fs), w)
    IN IF fh < 1 \/ fw < 1 THEN Error
       ELSE ClassifierHeadForward(hd, ConvMlpForward(pl, fh, fw), pre)

---------------------------------------------------------------------------
(* The inputs the operations are called with.                              *)
MaxClasses == 1
NumClassesArgs == -1 .. MaxClasses
OutputStrides == {16, 32}
InChans == {1, 3}
Ratio8Args == {4, 8}
PoolArgs == {"avg", "max", ""}
ImageSizes == {16, 224}

---------------------------------------------------------------------------
(* The life of one VGG model.                                              *)
InitOther ==
    /\ mlp = None /\ mlp_out = None
    /\ state_dict = <<>> /\ remapped = None /\ remapped2 = None

InitVGG ==
    /\ phase = NewVGG.phase
    /\ cfg_name = NewVGG.cfg_name
    /\ use_norm = NewVGG.use_norm
    /\ features = NewVGG.features
    /\ feature_info = NewVGG.feature_info
    /\ num_features = NewVGG.num_features
    /\ num_classes = NewVGG.num_classes
    /\ grad_checkpointing = NewVGG.grad_checkpointing
    /\ pre_logits = NewVGG.pre_logits
    /\ head = NewVGG.head
    /\ kwargs = None
    /\ call = NoCall
    /\ raised = FALSE
    /\ last_out = None

Init == InitVGG /\ InitOther

\* vggNN(**kwargs) / vggNN_bn(**kwargs): _create_vgg and VGG.__init__.
Construct ==
    \E name \in CfgNames, norm \in BOOLEAN, os \in OutputStrides,
       n \in NumClassesArgs, ic \in InChans, r \in Ratio8Args,
       pool \in {"avg"} :
        LET o == VGGInit(name, norm, os, n, ic, r, pool)
        IN /\ phase = "new"
           /\ phase' = o.phase
           /\ cfg_name' = o.cfg_name
           /\ use_norm' = o.use_norm
           /\ features' = o.features
           /\ feature_info' = o.feature_info
           /\ num_features' = o.num_features
           /\ num_classes' = o.num_classes
           /\ grad_checkpointing' = o.grad_checkpointing
           /\ pre_logits' = o.pre_logits
           /\ head' = o.head
           /\ kwargs' = [cfg |-> name, norm_layer |-> norm, output_stride |-> os,
                          num_classes |-> n, in_chans |-> ic, ratio8 |-> r,
                          global_pool |-> pool]
           /\ call' = [op |-> "VGG"]
           /\ raised' = (o.phase = "failed")
           /\ last_out' = None
           /\ UNCHANGED <<mlpVars, remapVars>>

\* What reset_classifier assigns: [num_classes, head].
ResetClassifierEffect(hd, n, pool_type) ==
    [num_classes |-> n, head |-> ClassifierHeadReset(hd, n, pool_type)]

ResetClassifier ==
    \E n \in NumClassesArgs, pool \in PoolArgs \cup {"None"} :
        LET e == ResetClassifierEffect(head, n, pool)
        IN /\ phase = "built"
           /\ num_classes' = e.num_classes
           /\ head' = e.head
           /\ call' = [op |-> "reset_classifier", num_classes |-> n,
                        global_pool |-> pool]
           /\ raised' = FALSE
           /\ last_out' = None
           /\ UNCHANGED <<phase, cfg_name, use_norm, features, feature_info,
                          num_features, grad_checkpointing, pre_logits, kwargs,
                          mlpVars, remapVars>>

\* set_grad_checkpointing storing the flag, as models that support it do.
SetGradCheckpointing_Store(flag, enable) ==
    [grad_checkpointing |-> enable, raised |-> FALSE]

\* What set_grad_checkpointing(enable) leaves in self.grad_checkpointing, and
\* whether it raises: the method is the assertion alone.
SetGradCheckpointingEffect(flag, enable) ==
    [grad_checkpointing |-> flag, raised |-> enable]

SetGradCheckpointing ==
    \E enable \in BOOLEAN :
        LET e == SetGradCheckpointingEffect(grad_checkpointing, enable)
        IN /\ phase = "built"
           /\ grad_checkpointing' = e.grad_checkpointing
           /\ call' = [op |-> "set_grad_checkpointing", enable |-> enable]
           /\ raised' = e.raised
           /\ last_out' = None
           /\ UNCHANGED <<phase, cfg_name, use_norm, features, feature_info,
                          num_features, num_classes, pre_logits, head, kwargs,
                          mlpVars, remapVars>>

Forward ==
    \E h \in ImageSizes, w \in ImageSizes, pre \in BOOLEAN :
        LET out == VGGForward(features, pre_logits, head, h, w, pre)
        IN /\ phase = "built"
           /\ last_out' = out
           /\ call' = [op |-> "forward", h |-> h, w |-> w, pre_logits |-> pre]
           /\ raised' = (out = Error)
           /\ UNCHANGED <<phase, cfg_name, use_norm, features, feature_info,
                          num_features, num_classes, grad_checkpointing,
                          pre_logits, head, kwargs, mlpVars, remapVars>>

Next == Construct \/ ResetClassifier \/ SetGradCheckpointing \/ Forward

Spec == Init /\ [][Next]_vars

---------------------------------------------------------------------------
(* A stand-alone ConvMlp: construction, then forward passes.               *)
MaxFeatures == 5
MaxRatio8 == 12
MaxDim == 9
OutFeaturesArgs == (1 .. MaxFeatures) \cup {head_hidden_size}
InFeaturesArgs == {3, 512}
KernelSizes == {1, 3, 7}

InitMlp == InitVGG /\ InitOther

\* ConvMlp(in_features, out_features, kernel_size, mlp_ratio = r / 8); a
\* convolution has at least one channel.
MlpConstruct ==
    \E i \in InFeaturesArgs, o \in OutFeaturesArgs, k \in KernelSizes,
       r \in 1 .. MaxRatio8 :
        /\ mlp = None
        /\ MidFeatures(o, r) >= 1
        /\ mlp' = ConvMlpInit(i, o, k, r)
        /\ call' = [op |-> "ConvMlp", in_features |-> i, out_features |-> o,
                     kernel_size |-> k, ratio8 |-> r]
        /\ UNCHANGED <<vggVars, mlp_out, remapVars>>

\* mlp(x) for x of spatial size h x w.
MlpForward ==
    \E h \in 1 .. MaxDim, w \in 1 .. MaxDim :
        /\ mlp # None
        /\ mlp_out' = ConvMlpForward(mlp, h, w)
        /\ call' = [op |-> "ConvMlp.forward", h |-> h, w |-> w]
        /\ UNCHANGED <<vggVars, mlp, remapVars>>

NextMlp == MlpConstruct \/ MlpForward

SpecMlp == InitMlp /\ [][NextMlp]_vars

---------------------------------------------------------------------------
(* _filter_fn.  A key is a sequence of pieces of text.  The letter c is a  *)
(* piece of its own wherever a legacy pattern could begin with it, so a    *)
(* pattern occurs in a key's text exactly where its pieces occur in the    *)
(* key's sequence: 'classifier.0' is <<"c", "lassifier.0">> and 'head.fc'  *)
(* is <<"head.f", "c">>.  A tensor is [id, shape]; a dict is the sequence  *)
(* of its items [key, value], in insertion order, the keys distinct.       *)
classifier_0 == <<"c", "lassifier.0">>
classifier_3 == <<"c", "lassifier.3">>
classifier_6 == <<"c", "lassifier.6">>
pre_logits_fc1 == <<"pre_logits.fc1">>
pre_logits_fc2 == <<"pre_logits.fc2">>
head_fc == <<"head.f", "c">>
dot_weight == <<".weight">>

\* pat in k
Contains(k, pat) ==
    \E i \in 1 .. (Len(k) - Len(pat) + 1) : SubSeq(k, i, i + Len(pat) - 1) = pat

\* k.replace(old, new): every occurrence, left to right, not overlapping.
RECURSIVE Replace(_, _, _)
Replace(k, old, new) ==
    IF Len(k) < Len(old) THEN k
    ELSE IF SubSeq(k, 1, Len(old)) = old
         THEN new \o Replace(SubSeq(k, Len(old) + 1, Len(k)), old, new)
         ELSE <<Head(k)>> \o Replace(Tail(k), old, new)

\* Rename with the third replacement's target mistyped as a legacy name.
Rename_CopyPaste(k) ==
    Replace(Replace(Replace(k, classifier_0, pre_logits_fc1),
                    classifier_3, pre_logits_fc2),
            classifier_6, classifier_0)

\* The three replacements of lines 278-280, in their order.
Rename(k) ==
    Replace(Replace(Replace(k, classifier_0, pre_logits_fc1),
                    classifier_3, pre_logits_fc2),
            classifier_6, head_fc)

RECURSIVE Numel(_)
Numel(shape) == IF shape = <<>> THEN 1 ELSE Head(shape) * Numel(Tail(shape))

\* v.reshape(-1, *tail): raises unless the element count divides.
Reshape(v, tail) ==
    IF Numel(v.shape) % Numel(tail) # 0 THEN Error
    ELSE [id |-> v.id, shape |-> <<Numel(v.shape) \div Numel(tail)>> \o tail]

\* Reshaped testing for '.weight' alone in the first condition.
Reshaped_AnyWeight(k, v) ==
    LET v1 == IF Contains(k, dot_weight)
              THEN Reshape(v, <<512, 7, 7>>) ELSE v
    IN IF v1 # Error /\ Contains(k, classifier_3 \o dot_weight)
       THEN Reshape(v1, <<4096, 1, 1>>) ELSE v1

\* The value stored for the item (k, v) (lines 281-284).
Reshaped(k, v) ==
    LET v1 == IF Contains(k, classifier_0 \o dot_weight)
              THEN Reshape(v, <<512, 7, 7>>) ELSE v
    IN IF v1 # Error /\ Contains(k, classifier_3 \o dot_weight)
       THEN Reshape(v1, <<4096, 1, 1>>) ELSE v1

\* d[k] = v
DictSet(d, k, v) ==
    IF \E i \in 1 .. Len(d) : d[i].key = k
    THEN [i \in 1 .. Len(d) |-> IF d[i].key = k THEN [key |-> k, value |-> v] ELSE d[i]]
    ELSE Append(d, [key |-> k, value |-> v])

\* The loop of _filter_fn over the first n items: out_dict, or Error once a
\* reshape raised.
RECURSIVE FilterLoop(_, _)
FilterLoop(sd, n) ==
    IF n = 0 THEN [kind |-> "dict", items |-> <<>>]
    ELSE LET out_dict == FilterLoop(sd, n - 1)
             v == Reshaped(sd[n].key, sd[n].value)
         IN IF out_dict.kind = "Error" \/ v = Error THEN Error
            ELSE [kind |-> "dict",
                  items |-> DictSet(out_dict.items, Rename(sd[n].key), v)]

\* _filter_fn(sd): [kind |-> "dict", items |-> the returned dict], or Error.
_filter_fn(sd) == FilterLoop(sd, Len(sd))

\* The checkpoints: at most MaxEntries items.
MaxEntries == 2
KeyBodies == {classifier_0, classifier_3, classifier_6, head_fc,
              classifier_6 \o <<"lassifier.3">>}
KeySuffixes == {dot_weight, <<".bias">>}
Keys ==
    {b \o s : b \in KeyBodies, s \in KeySuffixes}
    \cup {<<"module.">> \o b \o s : b \in {classifier_0, classifier_3}, s \in KeySuffixes}
Shapes == {<<4096, 25088>>, <<2, 25088>>, <<4096, 4096>>, <<4096, 2048>>}

IsDict(d) == \A i, j \in 1 .. Len(d) : d[i].key = d[j].key => i = j

StateDicts ==
    UNION {{d \in [1 .. n -> [key : Keys, value : [id : 1 .. n, shape : Shapes]]] :
              /\ IsDict(d)
              /\ \A i \in 1 .. n : d[i].value.id = i} : n \in 0 .. MaxEntries}

InitRemap ==
    /\ InitVGG
    /\ mlp = None /\ mlp_out = None
    /\ state_dict \in StateDicts
    /\ remapped = None /\ remapped2 = None

\* _filter_fn(state_dict), as build_model_with_cfg calls it on a checkpoint.
Remap ==
    /\ remapped = None
    /\ remapped' = _filter_fn(state_dict)
    /\ call' = [op |-> "_filter_fn"]
    /\ UNCHANGED <<vggVars, mlpVars, state_dict, remapped2>>

\* _filter_fn applied to its own result.
RemapAgain ==
    /\ remapped.kind = "dict"
    /\ remapped2 = None
    /\ remapped2' = _filter_fn(remapped.items)
    /\ call' = [op |-> "_filter_fn"]
    /\ UNCHANGED <<vggVars, mlpVars, state_dict, remapped>>

NextRemap == Remap \/ RemapAgain

SpecRemap == InitRemap /\ [][NextRemap]_vars

---------------------------------------------------------------------------
(* Properties of the VGG model (under Spec).                               *)

Markers(cfg) == {i \in DOMAIN cfg : cfg[i] = M}
KindCount(layers, kind) == Cardinality({i \in DOMAIN layers : layers[i].kind = kind})
IsConv(l) == l.kind = "conv"

\* C1: construction with output_stride # 32 fails with no feature layer, no
\* StageInfo, no head adapter and no classifier head built; with
\* output_stride = 32 it goes through.
C1_StrideAsserted ==
    call.op = "VGG" =>
        IF kwargs.output_stride # 32
        THEN /\ phase = "failed" /\ raised
             /\ features = <<>> /\ feature_info = <<>>
             /\ pre_logits = None /\ head = None
        ELSE phase = "built" /\ ~raised

C1_Witness ==
    phase = "failed" /\ call.op = "VGG" /\ kwargs.output_stride = 16

\* C2: every variant has exactly 5 markers, and its model has 6 StageInfo
\* entries of strides 1, 2, 4, 8, 16, 32, the last one of 512 channels, with
\* num_features = 512.
C2_FiveStagesStride32 ==
    /\ \A name \in CfgNames : Cardinality(Markers(cfgs[name])) = 5
    /\ phase = "built" =>
        /\ Len(feature_info) = 6
        /\ \A i \in 1 .. 6 : feature_info[i].reduction = 2 ^ (i - 1)
        /\ feature_info[6].num_chs = 512
        /\ feature_info[6].reduction = 32
        /\ num_features = 512

C2_Witness ==
    /\ phase = "built" /\ cfg_name = "vgg19" /\ use_norm
    /\ Len(feature_info) = 6 /\ feature_info[6].reduction = 32

\* The width of the last channel-width value before position i of cfg.
PrevWidth(cfg, i, in_chans) ==
    LET js == {j \in 1 .. (i - 1) : cfg[j] # M}
    IN IF js = {} THEN in_chans
       ELSE cfg[CHOOSE j \in js : \A j2 \in js : j2 <= j]

\* What position i of cfg stands for.
ExpectedBlock(cfg, i, norm, in_chans) ==
    IF cfg[i] = M THEN <<Pool>>
    ELSE IF norm
         THEN <<Conv(PrevWidth(cfg, i, in_chans), cfg[i], 3, 1), Norm(cfg[i]), Act>>
         ELSE <<Conv(PrevWidth(cfg, i, in_chans), cfg[i], 3, 1), Act>>

RECURSIVE ExpectedStack(_, _, _, _)
ExpectedStack(cfg, n, norm, in_chans) ==
    IF n = 0 THEN <<>>
    ELSE ExpectedStack(cfg, n - 1, norm, in_chans) \o ExpectedBlock(cfg, n, norm, in_chans)

\* C3: the feature stack is the in-order concatenation of [conv, norm, act]
\* (or [conv, act] without normalization) per channel width and [max-pool]
\* per marker; vgg16_bn has 13 convolutions, 13 normalizations, 13
\* activations and 5 poolings; each convolution takes the width the previous
\* one gives, the first takes in_chans.
C3_FeatureStack ==
    phase = "built" =>
        LET cfg == cfgs[kwargs.cfg]
            convs == SelectSeq(features, IsConv)
        IN /\ use_norm = kwargs.norm_layer
           /\ features = ExpectedStack(cfg, Len(cfg), kwargs.norm_layer, kwargs.in_chans)
           /\ (kwargs.cfg = "vgg16" /\ kwargs.norm_layer) =>
                /\ KindCount(features, "conv") = 13
                /\ KindCount(features, "norm") = 13
                /\ KindCount(features, "act") = 13
                /\ KindCount(features, "pool") = 5
           /\ convs[1].cin = kwargs.in_chans
           /\ \A i \in 2 .. Len(convs) : convs[i].cin = convs[i - 1].cout

C3_Witness ==
    /\ phase = "built" /\ kwargs.cfg = "vgg16" /\ kwargs.norm_layer
    /\ Len(features) = 44
    /\ features[2].kind = "norm"

\* C9: once built, no call changes the feature stack, the StageInfo list,
\* num_features or the head adapter, and grad_checkpointing stays False;
\* reset_classifier(n, pool) sets num_classes to n and never raises, with an
\* identity classifier exactly when n <= 0; every other call leaves
\* num_classes and the head alone; set_grad_checkpointing(enable) raises
\* exactly when enable is true.
C9_ResetFrame ==
    [][phase = "built" =>
        /\ phase' = "built"
        /\ features' = features
        /\ feature_info' = feature_info
        /\ num_features' = num_features
        /\ pre_logits' = pre_logits
        /\ grad_checkpointing = FALSE /\ grad_checkpointing' = FALSE
        /\ IF call'.op = "reset_classifier"
           THEN /\ num_classes' = call'.num_classes
                /\ ~raised'
                /\ (head'.fc.kind = "identity") <=> (call'.num_classes <= 0)
           ELSE num_classes' = num_classes /\ head' = head
        /\ call'.op = "set_grad_checkpointing" => (raised' <=> call'.enable)]_vars

C9_Witness ==
    /\ phase = "built" /\ call.op = "reset_classifier"
    /\ call.num_classes = -1 /\ num_classes = -1
    /\ head.fc.kind = "identity" /\ ~raised
    /\ Len(features) > 0 /\ Len(feature_info) = 6

\* C10 as claimed: every configuration starts with a channel width and has
\* no trailing marker, and every StageInfo, the final one included, names an
\* activation.
C10_NoTrailingMarker ==
    phase = "built" =>
        LET cfg == cfgs[kwargs.cfg]
        IN /\ cfg[1] # M
           /\ cfg[Len(cfg)] # M
           /\ \A i \in DOMAIN feature_info :
                features[feature_info[i].module + 1].kind = "act"

\* C10 amended: every configuration starts with a channel width, ENDS with a
\* marker and has no two markers in a row; each StageInfo the loop records
\* names the activation right before a pooling layer; the final StageInfo
\* names the last layer of the stack, which is the last pooling layer, and
\* differs from the one before it: the same channels at twice the stride, one
\* layer further.
C10_TrailingMarker ==
    /\ \A name \in CfgNames :
        LET cfg == cfgs[name]
        IN /\ cfg[1] # M
           /\ cfg[Len(cfg)] = M
           /\ \A i \in 1 .. (Len(cfg) - 1) : ~(cfg[i] = M /\ cfg[i + 1] = M)
    /\ phase = "built" =>
        LET n == Len(feature_info)
            last == feature_info[n]
            prev == feature_info[n - 1]
        IN /\ \A i \in 1 .. (n - 1) :
                /\ features[feature_info[i].module + 1].kind = "act"
                /\ features[feature_info[i].module + 2].kind = "pool"
           /\ last.module = Len(features) - 1
           /\ features[last.module + 1].kind = "pool"
           /\ last.module = prev.module + 1
           /\ last.reduction = 2 * prev.reduction
           /\ last.num_chs = prev.num_chs

C10_Witness ==
    /\ phase = "built" /\ kwargs.cfg = "vgg11" /\ ~kwargs.norm_layer
    /\ feature_info[6].module = 20
    /\ features[21].kind = "pool"

---------------------------------------------------------------------------
(* Properties of ConvMlp (under SpecMlp).                                  *)

Abs(x) == IF x < 0 THEN -x ELSE x

\* C7: for an h x w input, h, w >= 1, forward does not raise and yields
\* (max(k, h) - k + 1) x (max(k, w) - k + 1); it resizes exactly when h < k or
\* w < k; the output is at least 1 x 1, 1 x 1 for a k x k input, and 1 x 1 for
\* a 5 x 5 input with k = 7.
C7_AdapterOutputSize ==
    call.op = "ConvMlp.forward" =>
        LET k == mlp.input_kernel_size
        IN /\ mlp_out.kind = "map"
           /\ mlp_out.h = Max(k, call.h) - k + 1
           /\ mlp_out.w = Max(k, call.w) - k + 1
           /\ mlp_out.resized <=> (call.h < k \/ call.w < k)
           /\ mlp_out.h >= 1 /\ mlp_out.w >= 1
           /\ (call.h = k /\ call.w = k) => (mlp_out.h = 1 /\ mlp_out.w = 1)
           /\ (k = 7 /\ call.h = 5 /\ call.w = 5) => (mlp_out.h = 1 /\ mlp_out.w = 1)
           /\ mlp_out.chs = mlp.fc2.cout

C7_Witness ==
    /\ call.op = "ConvMlp.forward" /\ mlp.input_kernel_size = 7
    /\ call.h = 5 /\ call.w = 9
    /\ mlp_out.kind = "map" /\ mlp_out.resized
    /\ mlp_out.h = 1 /\ mlp_out.w = 3

\* C8 as claimed: the hidden width is out_features * mlp_ratio rounded to the
\* nearest integer (whichever way a half goes), fc1 maps in_features to it
\* and fc2 maps it to out_features.
C8_MidRounded ==
    call.op = "ConvMlp" =>
        LET mid == mlp.fc1.cout
        IN /\ 2 * Abs(8 * mid - call.out_features * call.ratio8) <= 8
           /\ mlp.fc1.cin = call.in_features
           /\ mlp.fc2.cin = mid
           /\ mlp.fc2.cout = call.out_features

\* C8 amended: the hidden width is out_features * mlp_ratio truncated to an
\* integer, mid <= out_features * mlp_ratio < mid + 1; fc1 maps in_features
\* to it and fc2 maps it to out_features.
C8_MidTruncated ==
    call.op = "ConvMlp" =>
        LET mid == mlp.fc1.cout
        IN /\ 8 * mid <= call.out_features * call.ratio8
           /\ call.out_features * call.ratio8 < 8 * (mid + 1)
           /\ mlp.fc1.cin = call.in_features
           /\ mlp.fc1.k = call.kernel_size
           /\ mlp.fc2.cin = mid
           /\ mlp.fc2.cout = call.out_features

C8_Witness ==
    /\ call.op = "ConvMlp" /\ call.out_features = 3 /\ call.ratio8 = 5
    /\ mlp.fc1.cout = 1 /\ mlp.fc2.cin = 1 /\ mlp.fc2.cout = 3

---------------------------------------------------------------------------
(* Properties of _filter_fn (under SpecRemap).                             *)

BeginsWith(k, pat) == Len(k) >= Len(pat) /\ SubSeq(k, 1, Len(pat)) = pat

LegacyNames == {classifier_0, classifier_3, classifier_6}
HasLegacy(k) == \E pat \in LegacyNames : Contains(k, pat)
HasLegacyPrefix(k) == \E pat \in LegacyNames : BeginsWith(k, pat)

\* A 'classifier.6' whose replacement 'head.fc' joins the text after it into
\* another legacy name: 'classifier.6lassifier.3' gives 'head.fclassifier.3'.
Joins(k) ==
    \E t \in {"lassifier.0", "lassifier.3", "lassifier.6"} :
        Contains(k, classifier_6 \o <<t>>)

Ran == remapped.kind # "None"
RanTwice == remapped2.kind # "None"
Returned == remapped.kind = "dict"

\* Whether a flat weight of the shape fits the claim's case for the key.
FlatFirst(it) ==
    /\ BeginsWith(it.key, classifier_0 \o dot_weight)
    /\ Len(it.value.shape) = 2 /\ it.value.shape[2] = 512 * 7 * 7
FlatSecond(it) ==
    /\ BeginsWith(it.key, classifier_3 \o dot_weight)
    /\ Len(it.value.shape) = 2

\* C4: the weight under the first legacy prefix goes from (out, 512*7*7) to
\* (out, 512, 7, 7), the weight under the second from (out, mid) to
\* (out, mid, 1, 1), for every out and every mid, without raising; the first
\* dimension and the element count are kept.
C4_ReshapeAnyMid ==
    Ran =>
        /\ (\A i \in DOMAIN state_dict :
                FlatFirst(state_dict[i]) \/ FlatSecond(state_dict[i])) => Returned
        /\ Returned =>
            \A i \in DOMAIN state_dict, j \in DOMAIN remapped.items :
                remapped.items[j].value.id = i =>
                    LET s == state_dict[i].value.shape
                        t == remapped.items[j].value.shape
                    IN /\ FlatFirst(state_dict[i]) => t = <<s[1], 512, 7, 7>>
                       /\ FlatSecond(state_dict[i]) => t = <<s[1], s[2], 1, 1>>
                       /\ (FlatFirst(state_dict[i]) \/ FlatSecond(state_dict[i])) =>
                            (t[1] = s[1] /\ Numel(t) = Numel(s))

\* The two shapes of torchvision's checkpoints, (4096, 25088) under the first
\* prefix and (4096, 4096) under the second, reshaped as C4 says.
C4_Reached ==
    /\ Returned /\ Len(state_dict) = 2
    /\ state_dict[1].key = classifier_0 \o dot_weight
    /\ state_dict[1].value.shape = <<4096, 25088>>
    /\ remapped.items[1].value.shape = <<4096, 512, 7, 7>>
    /\ state_dict[2].key = classifier_3 \o dot_weight
    /\ state_dict[2].value.shape = <<4096, 4096>>
    /\ remapped.items[2].value.shape = <<4096, 4096, 1, 1>>

\* C5 as claimed: only keys that begin with a legacy prefix are renamed;
\* every other item is in the output with the same key and the same value;
\* a checkpoint with no such key comes back as it is, and nothing raises.
C5_PrefixOnly ==
    Ran =>
        /\ (\A i \in DOMAIN state_dict : ~HasLegacyPrefix(state_dict[i].key)) =>
                remapped = [kind |-> "dict", items |-> state_dict]
        /\ Returned =>
            \A i \in DOMAIN state_dict :
                ~HasLegacyPrefix(state_dict[i].key) =>
                    \E j \in DOMAIN remapped.items : remapped.items[j] = state_dict[i]

\* C5 amended: exactly the keys that contain a legacy name, anywhere, are
\* renamed; every other item keeps its key, and keeps its value unless an
\* item with a legacy name that comes after it is renamed to the same key and
\* overwrites it; a checkpoint none of whose keys contains a legacy name
\* comes back as it is, and nothing raises.
C5_ContainsOnly ==
    Ran =>
        /\ (\A i \in DOMAIN state_dict : ~HasLegacy(state_dict[i].key)) =>
                remapped = [kind |-> "dict", items |-> state_dict]
        /\ Returned =>
            \A i \in DOMAIN state_dict :
                IF HasLegacy(state_dict[i].key)
                THEN \A j \in DOMAIN remapped.items :
                        remapped.items[j].value.id = i =>
                            remapped.items[j].key # state_dict[i].key
                ELSE \E j \in DOMAIN remapped.items :
                        /\ remapped.items[j].key = state_dict[i].key
                        /\ \/ remapped.items[j].value = state_dict[i].value
                           \/ /\ remapped.items[j].value.id > i
                              /\ HasLegacy(state_dict[remapped.items[j].value.id].key)

C5_Witness ==
    /\ Returned /\ Len(state_dict) = 2
    /\ ~HasLegacy(state_dict[1].key)
    /\ HasLegacy(state_dict[2].key) /\ ~HasLegacyPrefix(state_dict[2].key)
    /\ remapped.items[1] = state_dict[1]
    /\ remapped.items[2].key # state_dict[2].key

\* C6 as claimed: for every checkpoint, applying _filter_fn to its own
\* result gives that result again.
C6_Idempotent ==
    RanTwice => remapped2 = remapped

\* C6 amended: for every checkpoint in which no 'classifier.6' is directly
\* followed by 'lassifier.0', 'lassifier.3' or 'lassifier.6', no key of the
\* result contains a legacy name, and applying _filter_fn to the result gives
\* the result again.
C6_IdempotentUnlessJoined ==
    (RanTwice /\ \A i \in DOMAIN state_dict : ~Joins(state_dict[i].key)) =>
        /\ \A j \in DOMAIN remapped.items : ~HasLegacy(remapped.items[j].key)
        /\ remapped2 = remapped

C6_Witness ==
    /\ RanTwice /\ remapped2 = remapped
    /\ Len(state_dict) = 2
    /\ \A i \in DOMAIN state_dict :
        HasLegacy(state_dict[i].key) /\ ~Joins(state_dict[i].key)
    /\ remapped.items[1].value.shape # state_dict[1].value.shape

====
